---- MODULE Spec2Model ----
(***************************************************************************)
(* Model of 05_Apps_and_collaboration/streamlit_app.py: a Streamlit script *)
(* that loads a sales/weather table once (st.cache_data), narrows it with  *)
(* cascading sidebar widgets and draws a dual-axis Altair chart.           *)
(*                                                                         *)
(* One action of the model is one user event followed by the complete      *)
(* top-to-bottom execution of the script that the event triggers.          *)
(***************************************************************************)
EXTENDS Integers, Sequences, FiniteSets

\* cache       the st.cache_data entry of load_data()
\* store_hits  how many times session.sql(query) has returned a table
\* widgets     the session's state of the five sidebar widgets
\* script      the locals of the last run of the script
\* page        the elements the last run rendered
VARIABLES cache, store_hits, widgets, script, page

vars == <<cache, store_hits, widgets, script, page>>

-----------------------------------------------------------------------------
(* Bounds of the model *)

\* Largest number of rows a query result holds.
MaxRows == 2

\* Last day of the view, counted from 2022-01-01 = day 1.
MaxDay == 3

\* Largest DAILY_SALES cell of the view.
MaxSales == 2

-----------------------------------------------------------------------------
(* Values *)

\* Python's None / a pandas null cell.
None == "<None>"

\* st.cache_data before load_data() has returned: no entry.
NoEntry == [present |-> FALSE, value |-> <<>>]

\* A script local that the run never assigned.
Unbound == "<unbound>"

ASIA_CITIES == {"Mumbai", "Delhi", "Tokyo", "Seoul", "Sydney", "Melbourne"}

YEARS == {2022, 2023}

\* Python's str ordering (code points) of the strings that occur as cells.
Lexicographic == <<"Australia", "Gyoza", "Japan", "Paris", "Ramen", "Sydney", "Tokyo">>

RECURSIVE IndexIn(_, _, _)
IndexIn(x, s, i) ==
  IF i > Len(s) THEN 0 ELSE IF s[i] = x THEN i ELSE IndexIn(x, s, i + 1)

\* a < b for two str cells, as Python's sorted() compares them.
Less(a, b) == IndexIn(a, Lexicographic, 1) < IndexIn(b, Lexicographic, 1)

\* Days are counted from 2022-01-01 = day 1; day 0 is 2021-12-31.
Year(d) == 2022 + ((d - 1) \div 365)

\* pd.to_datetime on a DATE cell: the timestamp of that day's midnight, in hours.
ToDatetime(d) == d * 24

\* Timestamp.date() / Series.dt.date: the calendar day of a timestamp.
DateOf(ts) == ts \div 24

-----------------------------------------------------------------------------
(* The external view tb_101.analytics.daily_sales_by_weather_v *)

ViewCountries == {None, "Australia", "Japan"}
ViewCities == {None, "Paris", "Sydney", "Tokyo"}
ViewMenuItems == {None, "Gyoza", "Ramen"}
ViewDays == 0 .. MaxDay
ViewSales == 0 .. MaxSales

\* The weather columns of the view are observations per city and day.
Observation(city, d) ==
  [AVG_TEMP_FAHRENHEIT      |-> 1 + ((d + (IF city = "Tokyo" THEN 1 ELSE 0)) % 2),
   AVG_PRECIPITATION_INCHES |-> d % 2,
   AVG_SNOWDEPTH_INCHES     |-> 0,
   MAX_WIND_SPEED_MPH       |-> IF city = "Tokyo" THEN 2 ELSE 3]

ViewRow(d, city, country, sales, item) ==
  [DATE           |-> d,
   CITY_NAME      |-> city,
   COUNTRY_DESC   |-> country,
   DAILY_SALES    |-> sales,
   MENU_ITEM_NAME |-> item,
   AVG_TEMP_FAHRENHEIT      |-> Observation(city, d).AVG_TEMP_FAHRENHEIT,
   AVG_PRECIPITATION_INCHES |-> Observation(city, d).AVG_PRECIPITATION_INCHES,
   AVG_SNOWDEPTH_INCHES     |-> Observation(city, d).AVG_SNOWDEPTH_INCHES,
   MAX_WIND_SPEED_MPH       |-> Observation(city, d).MAX_WIND_SPEED_MPH]

ViewRows ==
  { ViewRow(d, city, country, sales, item) :
      d \in ViewDays, city \in ViewCities, country \in ViewCountries,
      sales \in ViewSales, item \in ViewMenuItems }

\* The WHERE clause of the query (SQL comparisons with NULL are not true).
Where(r) ==
  /\ r.CITY_NAME \in ASIA_CITIES
  /\ Year(r.DATE) \in YEARS
  /\ r.DAILY_SALES > 0

\* df['DATE'] = pd.to_datetime(df['DATE'])
ConvertDate(r) == [r EXCEPT !.DATE = ToDatetime(r.DATE)]

\* Every table load_data can return: rows of the view that pass the WHERE
\* clause, in any order and multiplicity, DATE converted to a timestamp.
QueryResults ==
  UNION { [1 .. n -> { ConvertDate(r) : r \in { v \in ViewRows : Where(v) } }] :
            n \in 0 .. MaxRows }

-----------------------------------------------------------------------------
(* pandas and Python operations the script applies *)

\* df[col]
Column(df, col) == [i \in 1 .. Len(df) |-> df[i][col]]

\* Series.dropna()
DropNa(s) == SelectSeq(s, LAMBDA x : x # None)

\* Series.unique(): the distinct values in order of first appearance.
RECURSIVE Unique(_)
Unique(s) ==
  IF s = <<>> THEN <<>>
  ELSE LET init == Unique(SubSeq(s, 1, Len(s) - 1))
           last == s[Len(s)]
       IN  IF \E i \in 1 .. Len(init) : init[i] = last THEN init
           ELSE Append(init, last)

RECURSIVE Insert(_, _)
Insert(x, s) ==
  IF s = <<>> THEN <<x>>
  ELSE IF Less(x, Head(s)) THEN <<x>> \o s
  ELSE <<Head(s)>> \o Insert(x, Tail(s))

\* sorted(list of str)
RECURSIVE Sorted(_)
Sorted(s) == IF s = <<>> THEN <<>> ELSE Insert(Head(s), Sorted(Tail(s)))

\* sorted(df[col].dropna().unique().tolist())
Options(df, col) == Sorted(Unique(DropNa(Column(df, col))))

\* The comparison mask is computed and never applied.
WhereEqualsUnapplied(df, col, value) == df

\* df[df[col] == value]: an elementwise == is False on a null cell and
\* False everywhere when value is None.
WhereEquals(df, col, value) ==
  SelectSeq(df, LAMBDA r : r[col] # None /\ value # None /\ r[col] = value)

RECURSIVE Sum(_)
Sum(s) == IF s = <<>> THEN 0 ELSE Head(s) + Sum(Tail(s))

\* Series.min() / Series.max() of a non-empty integer column.
Min(s) == CHOOSE x \in { s[i] : i \in 1 .. Len(s) } :
            \A j \in 1 .. Len(s) : x <= s[j]
Max(s) == CHOOSE x \in { s[i] : i \in 1 .. Len(s) } :
            \A j \in 1 .. Len(s) : x >= s[j]

\* 'mean' of a non-empty group, kept exact as a fraction.
Mean(s) == [num |-> Sum(s), den |-> Len(s)]

\* 'first' in place of 'sum'.
AggFirst(s) == s[1]

\* 'sum' of a group.
AggSum(s) == Sum(s)

\* The group keys of groupby('DATE'): the distinct DATE values, ascending.
RECURSIVE Ascending(_)
Ascending(S) ==
  IF S = {} THEN <<>>
  ELSE LET m == CHOOSE x \in S : \A y \in S : x <= y
       IN  <<m>> \o Ascending(S \ {m})

\* One key per row: the DATE column with its repetitions.
GroupKeysPerRow(df) == Column(df, "DATE")

GroupKeys(df) == Ascending({ df[i].DATE : i \in 1 .. Len(df) })

\* filtered_data.groupby('DATE').agg({'DAILY_SALES': 'sum', metric: 'mean'})
\*   .reset_index(): one row per group key.
GroupByDate(df, metric) ==
  LET keys == GroupKeys(df)
      group(k) == SelectSeq(df, LAMBDA r : r.DATE = k)
  IN  [i \in 1 .. Len(keys) |->
        [c \in {"DATE", "DAILY_SALES", metric} |->
           IF c = "DATE" THEN keys[i]
           ELSE IF c = "DAILY_SALES" THEN AggSum(Column(group(keys[i]), "DAILY_SALES"))
           ELSE Mean(Column(group(keys[i]), metric))]]

\* Series.mean() over the per-day means.
RECURSIVE SumOfFractions(_)
SumOfFractions(s) ==
  IF s = <<>> THEN [num |-> 0, den |-> 1]
  ELSE LET a == Head(s)
           b == SumOfFractions(Tail(s))
       IN  [num |-> a.num * b.den + b.num * a.den, den |-> a.den * b.den]

MeanOfMeans(s) ==
  [num |-> SumOfFractions(s).num, den |-> SumOfFractions(s).den * Len(s)]

\* The upper end excluded.
DateRangeFilterHalfOpen(df, date_range) ==
  SelectSeq(df, LAMBDA r : /\ DateOf(r.DATE) >= date_range[1]
                           /\ DateOf(r.DATE) < date_range[2])

\* The rows whose calendar day lies in [date_range[0], date_range[1]].
DateRangeFilter(df, date_range) ==
  SelectSeq(df, LAMBDA r : /\ DateOf(r.DATE) >= date_range[1]
                           /\ DateOf(r.DATE) <= date_range[2])

-----------------------------------------------------------------------------
(* Streamlit widgets *)

\* The state the session keeps for one widget: the parameters it was built
\* with (its identity) and the value the user left it at.
Fresh == [known |-> FALSE, key |-> <<>>, value |-> None]

\* The value kept from an earlier run is returned whatever the options are now.
SelectboxStale(options, index, state) ==
  IF state.known THEN state.value
  ELSE IF options = <<>> THEN None
  ELSE options[index + 1]

\* st.selectbox(options=options, index=index): the value kept for this very
\* widget, else the option at index (0-based); None when there is no option.
Selectbox(options, index, state) ==
  IF state.known /\ state.key = options /\ options # <<>> THEN state.value
  ELSE IF options = <<>> THEN None
  ELSE options[index + 1]

\* st.slider(min_value, max_value, value=(min_value, max_value)): the range
\* kept for this very widget, else the full range.
Slider(min_value, max_value, state) ==
  IF state.known /\ state.key = <<min_value, max_value>> THEN state.value
  ELSE <<min_value, max_value>>

\* countries.index('Japan') if 'Japan' in countries else 0
CountryIndex(countries) ==
  IF \E i \in 1 .. Len(countries) : countries[i] = "Japan"
  THEN IndexIn("Japan", countries, 1) - 1
  ELSE 0

\* weather_metrics: label -> column; list(weather_metrics.keys()) keeps the
\* order of insertion.
weather_labels == <<"temp (F)", "precipitation (inches)", "snow depth (inches)", "max wind (mph)">>

weather_metrics ==
  [l \in { weather_labels[i] : i \in 1 .. Len(weather_labels) } |->
     IF l = "temp (F)" THEN "AVG_TEMP_FAHRENHEIT"
     ELSE IF l = "precipitation (inches)" THEN "AVG_PRECIPITATION_INCHES"
     ELSE IF l = "snow depth (inches)" THEN "AVG_SNOWDEPTH_INCHES"
     ELSE "MAX_WIND_SPEED_MPH"]

-----------------------------------------------------------------------------
(* The chart specification *)

\* base.mark_line(...).encode(y=...) + base.mark_circle(...).encode(y=...)
Layer(field, color) ==
  [x |-> "DATE:T", y |-> field, marks |-> <<"line", "circle">>, color |-> color]

\* The layers without resolve_scale: Altair's default shares the y scale.
CombinedChartShared(daily_data, selected_weather_metric) ==
  [data    |-> daily_data,
   layer   |-> <<Layer("DAILY_SALES:Q", "#1f77b4"),
                 Layer(selected_weather_metric \o ":Q", "#ff7f0e")>>,
   resolve |-> [scale |-> [y |-> "shared"]]]

\* alt.layer(sales_line + sales_points, weather_line + weather_points)
\*    .resolve_scale(y='independent')
CombinedChart(daily_data, selected_weather_metric) ==
  [data    |-> daily_data,
   layer   |-> <<Layer("DAILY_SALES:Q", "#1f77b4"),
                 Layer(selected_weather_metric \o ":Q", "#ff7f0e")>>,
   resolve |-> [scale |-> [y |-> "independent"]]]

-----------------------------------------------------------------------------
(* The script *)

Header == {"title", "write", "spinner"}

Sidebar == {"sidebar.header", "sidebar.country", "sidebar.city",
            "sidebar.menu_item", "sidebar.weather", "sidebar.info"}

MainContent == {"metric.total_sales", "metric.avg_weather", "metric.data_points",
                "subheader", "altair_chart", "legend", "expander.dataframe"}

\* The comparison never true.
NoDataNever(filtered_data) == Len(filtered_data) < 0

\* len(filtered_data) == 0
NoData(filtered_data) == Len(filtered_data) = 0

\* Lines 58-238: the script from the loaded table on. input is the widget
\* state of the session with the user's event applied.
Body(sales_weather_data, input) ==
  LET countries == Options(sales_weather_data, "COUNTRY_DESC")
      selected_country == Selectbox(countries, CountryIndex(countries), input.country)
      country_filtered_data == WhereEquals(sales_weather_data, "COUNTRY_DESC", selected_country)
      cities == Options(country_filtered_data, "CITY_NAME")
      selected_city == Selectbox(cities, 0, input.city)
      city_filtered_data == WhereEquals(country_filtered_data, "CITY_NAME", selected_city)
      menu_items == Options(city_filtered_data, "MENU_ITEM_NAME")
      selected_menu_item == Selectbox(menu_items, 0, input.menu_item)
      item_filtered_data == WhereEquals(city_filtered_data, "MENU_ITEM_NAME", selected_menu_item)
      has_slider == Len(item_filtered_data) > 0
      min_date == IF has_slider THEN DateOf(Min(Column(item_filtered_data, "DATE"))) ELSE Unbound
      max_date == IF has_slider THEN DateOf(Max(Column(item_filtered_data, "DATE"))) ELSE Unbound
      date_range == IF has_slider THEN Slider(min_date, max_date, input.date_range) ELSE Unbound
      filtered_data == IF has_slider THEN DateRangeFilter(item_filtered_data, date_range)
                       ELSE item_filtered_data
      selected_weather_label == Selectbox(weather_labels, 0, input.weather)
      selected_weather_metric == weather_metrics[selected_weather_label]
      empty == NoData(filtered_data)
      daily_data == IF empty THEN Unbound ELSE GroupByDate(filtered_data, selected_weather_metric)
  IN  [query               |-> "returned",
       reached             |-> {"load", "filter"} \cup (IF empty THEN {} ELSE {"aggregate", "chart"}),
       sales_weather_data  |-> sales_weather_data,
       countries           |-> countries,
       selected_country    |-> selected_country,
       cities              |-> cities,
       selected_city       |-> selected_city,
       menu_items          |-> menu_items,
       selected_menu_item  |-> selected_menu_item,
       item_filtered_data  |-> item_filtered_data,
       min_date            |-> min_date,
       max_date            |-> max_date,
       date_range          |-> date_range,
       filtered_data       |-> filtered_data,
       selected_weather_label  |-> selected_weather_label,
       selected_weather_metric |-> selected_weather_metric,
       daily_data          |-> daily_data,
       total_sales         |-> IF empty THEN Unbound ELSE Sum(Column(daily_data, "DAILY_SALES")),
       avg_weather         |-> IF empty THEN Unbound
                               ELSE MeanOfMeans(Column(daily_data, selected_weather_metric)),
       data_points         |-> IF empty THEN Unbound ELSE Len(daily_data),
       combined_chart      |-> IF empty THEN Unbound
                               ELSE CombinedChart(daily_data, selected_weather_metric),
       page                |-> Header \cup {"success"} \cup Sidebar
                               \cup (IF has_slider THEN {"sidebar.date_range"} ELSE {})
                               \cup (IF empty THEN {"warning"} ELSE MainContent)]

\* The run in which load_data raised: the exception leaves the script at
\* line 56 and Streamlit shows it in place of the rest of the page.
Halted ==
  [query               |-> "raised",
   reached             |-> {"load"},
   sales_weather_data  |-> Unbound,
   countries           |-> Unbound,
   selected_country    |-> Unbound,
   cities              |-> Unbound,
   selected_city       |-> Unbound,
   menu_items          |-> Unbound,
   selected_menu_item  |-> Unbound,
   item_filtered_data  |-> Unbound,
   min_date            |-> Unbound,
   max_date            |-> Unbound,
   date_range          |-> Unbound,
   filtered_data       |-> Unbound,
   selected_weather_label  |-> Unbound,
   selected_weather_metric |-> Unbound,
   daily_data          |-> Unbound,
   total_sales         |-> Unbound,
   avg_weather         |-> Unbound,
   data_points         |-> Unbound,
   combined_chart      |-> Unbound,
   page                |-> Header \cup {"exception"}]

\* load_data without @st.cache_data: every call issues the query.
load_data_uncached(entry) ==
  {[raised |-> FALSE, df |-> t, hit_store |-> TRUE] : t \in QueryResults}
  \cup {[raised |-> TRUE, df |-> <<>>, hit_store |-> FALSE]}

\* What a call of load_data() can do given the cache entry: return the entry
\* without a query, or issue the query, which returns a table or raises.
load_data(entry) ==
  IF entry.present
  THEN {[raised |-> FALSE, df |-> entry.value, hit_store |-> FALSE]}
  ELSE {[raised |-> FALSE, df |-> t, hit_store |-> TRUE] : t \in QueryResults}
       \cup {[raised |-> TRUE, df |-> <<>>, hit_store |-> FALSE]}

\* load_data wrapped in try/except that goes on with an empty table.
RunSwallowing(loaded, input) ==
  IF loaded.raised THEN [Body(<<>>, input) EXCEPT !.query = "raised"]
  ELSE Body(loaded.df, input)

\* One execution of the script, top to bottom.
Run(loaded, input) ==
  IF loaded.raised THEN Halted ELSE Body(loaded.df, input)

\* The widget state the session keeps after a run: one entry per widget the
\* run built, none for a widget it did not build.
Registered(r) ==
  LET kept(name, key, value) ==
        IF name \in r.page THEN [known |-> TRUE, key |-> key, value |-> value] ELSE Fresh
  IN  [country    |-> kept("sidebar.country", r.countries, r.selected_country),
       city       |-> kept("sidebar.city", r.cities, r.selected_city),
       menu_item  |-> kept("sidebar.menu_item", r.menu_items, r.selected_menu_item),
       date_range |-> kept("sidebar.date_range", <<r.min_date, r.max_date>>, r.date_range),
       weather    |-> kept("sidebar.weather", weather_labels, r.selected_weather_label)]

\* The script runs on the widget state input.
Execute(input) ==
  \E loaded \in load_data(cache) :
    \E r \in {Run(loaded, input)} :
        /\ cache' = IF loaded.raised THEN cache
                    ELSE [present |-> TRUE, value |-> loaded.df]
        /\ store_hits' = store_hits + (IF loaded.hit_store THEN 1 ELSE 0)
        /\ script' = [f \in DOMAIN r \ {"page"} |-> r[f]]
        /\ page' = r.page
        /\ widgets' = Registered(r)

-----------------------------------------------------------------------------
(* Behaviours *)

Init ==
  /\ cache = NoEntry
  /\ store_hits = 0
  /\ widgets = [country |-> Fresh, city |-> Fresh, menu_item |-> Fresh,
                date_range |-> Fresh, weather |-> Fresh]
  /\ script = [f \in DOMAIN Halted \ {"page"} |-> IF f = "reached" THEN {}
                                                   ELSE IF f = "query" THEN "not issued"
                                                   ELSE Unbound]
  /\ page = {}

\* The page is opened or re-run without touching a widget.
Rerun == Execute(widgets)

SelectCountry ==
  /\ "sidebar.country" \in page
  /\ \E c \in { script.countries[i] : i \in 1 .. Len(script.countries) } :
       /\ c # widgets.country.value
       /\ Execute([widgets EXCEPT !.country.value = c])

SelectCity ==
  /\ "sidebar.city" \in page
  /\ \E c \in { script.cities[i] : i \in 1 .. Len(script.cities) } :
       /\ c # widgets.city.value
       /\ Execute([widgets EXCEPT !.city.value = c])

SelectMenuItem ==
  /\ "sidebar.menu_item" \in page
  /\ \E m \in { script.menu_items[i] : i \in 1 .. Len(script.menu_items) } :
       /\ m # widgets.menu_item.value
       /\ Execute([widgets EXCEPT !.menu_item.value = m])

SlideDateRange ==
  /\ "sidebar.date_range" \in page
  /\ \E lo \in script.min_date .. script.max_date :
       \E hi \in lo .. script.max_date :
         /\ <<lo, hi>> # widgets.date_range.value
         /\ Execute([widgets EXCEPT !.date_range.value = <<lo, hi>>])

SelectWeather ==
  /\ "sidebar.weather" \in page
  /\ \E l \in { weather_labels[i] : i \in 1 .. Len(weather_labels) } :
       /\ l # widgets.weather.value
       /\ Execute([widgets EXCEPT !.weather.value = l])

Next ==
  \/ Rerun
  \/ SelectCountry
  \/ SelectCity
  \/ SelectMenuItem
  \/ SlideDateRange
  \/ SelectWeather

Spec == Init /\ [][Next]_vars

-----------------------------------------------------------------------------
(* Properties *)

Elems(s) == { s[i] : i \in 1 .. Len(s) }

\* The last run got its table and went through the sidebar.
Returned == script.query = "returned"

\* The last run took the else branch of the main content.
Aggregated == "aggregate" \in script.reached

\* The sum of DAILY_SALES over the rows of df whose index is in I.
RECURSIVE SalesOf(_, _)
SalesOf(df, I) ==
  IF I = {} THEN 0
  ELSE LET i == CHOOSE k \in I : TRUE
       IN  df[i].DAILY_SALES + SalesOf(df, I \ {i})

StrictlyAscending(s) == \A i \in 1 .. Len(s) - 1 : Less(s[i], s[i + 1])

FilterWidgets == {"sidebar.country", "sidebar.city", "sidebar.menu_item",
                  "sidebar.date_range", "sidebar.weather"}

\* C1: whenever the script aggregates, every row of the fully filtered table
\* falls in exactly one row of the daily aggregate, each daily total is the
\* sum of DAILY_SALES of the rows of that date, and the total-sales card
\* shows the sum of DAILY_SALES over all rows of the filtered table.
C1_AggregationCorrect ==
  Aggregated =>
    LET T == script.filtered_data
        D == script.daily_data
    IN  /\ Len(T) > 0
        /\ \A j \in 1 .. Len(T) :
             Cardinality({ i \in 1 .. Len(D) : D[i].DATE = T[j].DATE }) = 1
        /\ \A i \in 1 .. Len(D) :
             D[i].DAILY_SALES = SalesOf(T, { j \in 1 .. Len(T) : T[j].DATE = D[i].DATE })
        /\ SalesOf(D, 1 .. Len(D)) = SalesOf(T, 1 .. Len(T))
        /\ script.total_sales = SalesOf(T, 1 .. Len(T))

\* Two rows of one date with different sales were summed into one daily row.
C1_Witness ==
  /\ Aggregated
  /\ Len(script.filtered_data) = 2
  /\ Len(script.daily_data) = 1
  /\ script.filtered_data[1].DAILY_SALES # script.filtered_data[2].DAILY_SALES
  /\ script.total_sales = 3

\* C2: a run whose table is empty after the whole cascade shows the warning
\* and neither aggregates nor renders any main content; a run whose table is
\* not empty aggregates, renders the chart and shows no warning.
C2_EmptyResult ==
  Returned =>
    IF Len(script.filtered_data) = 0
    THEN /\ "warning" \in page
         /\ script.reached \cap {"aggregate", "chart"} = {}
         /\ page \cap MainContent = {}
    ELSE /\ {"aggregate", "chart"} \subseteq script.reached
         /\ MainContent \subseteq page
         /\ "warning" \notin page

\* The table became empty only at the date range.
C2_Witness ==
  /\ Returned
  /\ "warning" \in page
  /\ "sidebar.date_range" \in page
  /\ Len(script.item_filtered_data) = 2

\* C3: a run in which the query of load_data fails reaches neither filtering
\* nor aggregation nor the chart, shows no sidebar, chart or table, and shows
\* the failure.
C3_LoadFailureHalts ==
  script.query = "raised" =>
    /\ script.reached = {"load"}
    /\ "exception" \in page
    /\ page \cap (Sidebar \cup MainContent
                  \cup {"sidebar.date_range", "success", "warning"}) = {}

C3_Witness ==
  /\ script.query = "raised"
  /\ "exception" \in page
  /\ ~cache.present

\* C4: after a failed fetch or an empty selection a message is shown and all
\* five filter widgets are rendered in that run.
C4_ErrorsKeepFilters ==
  (script.query = "raised" \/ "warning" \in page) =>
    /\ page \cap {"exception", "warning"} # {}
    /\ FilterWidgets \subseteq page

\* C5: at most one query ever returns, and once load_data has returned no
\* run queries the store again: the entry stays, and every later run works on
\* that very table.
C5_FetchMemoized ==
  [][ /\ store_hits' <= 1
      /\ cache.present =>
           /\ cache' = cache
           /\ store_hits' = store_hits
           /\ script'.query = "returned"
           /\ script'.sales_weather_data = cache.value ]_vars

\* A re-run after the load: the user has moved the weather selectbox.
C5_Witness ==
  /\ cache.present
  /\ store_hits = 1
  /\ Returned
  /\ Len(cache.value) = MaxRows
  /\ script.selected_weather_label = weather_labels[2]

\* C6: the option lists are exactly the non-null values of the loaded rows
\* that match the choices made above them (country for the cities, country
\* and city for the menu items), each once, ascending.
C6_CascadeConsistency ==
  Returned =>
    LET rows == Elems(script.sales_weather_data)
        c    == script.selected_country
        city == script.selected_city
    IN  /\ Elems(script.countries) = { r.COUNTRY_DESC : r \in rows } \ {None}
        /\ Elems(script.cities) =
             { r.CITY_NAME : r \in { x \in rows : c # None /\ x.COUNTRY_DESC = c } } \ {None}
        /\ Elems(script.menu_items) =
             { r.MENU_ITEM_NAME :
                 r \in { x \in rows : /\ c # None /\ x.COUNTRY_DESC = c
                                      /\ city # None /\ x.CITY_NAME = city } } \ {None}
        /\ \A opts \in {script.countries, script.cities, script.menu_items} :
             /\ None \notin Elems(opts)
             /\ StrictlyAscending(opts)

\* Two countries, each with a city of its own: only the chosen country's
\* city is offered.
C6_Witness ==
  /\ Returned
  /\ Len(script.countries) = 2
  /\ Len(script.cities) = 1
  /\ Cardinality({ r.CITY_NAME : r \in Elems(script.sales_weather_data) }) = 2

\* C7: the slider is built exactly when the menu-item-filtered table has
\* rows; its bounds are the first and last day of that table, and the rows
\* kept are exactly those with lo <= day <= hi; the full range keeps all.
C7_DateRangeFilter ==
  Returned =>
    LET M == script.item_filtered_data
    IN  /\ ("sidebar.date_range" \in page) <=> (Len(M) > 0)
        /\ Len(M) > 0 =>
             LET days == { DateOf(M[i].DATE) : i \in 1 .. Len(M) }
                 lo   == script.date_range[1]
                 hi   == script.date_range[2]
             IN  /\ script.min_date \in days
                 /\ script.max_date \in days
                 /\ \A d \in days : script.min_date <= d /\ d <= script.max_date
                 /\ script.min_date <= lo /\ lo <= hi /\ hi <= script.max_date
                 /\ script.filtered_data =
                      SelectSeq(M, LAMBDA r : lo <= DateOf(r.DATE) /\ DateOf(r.DATE) <= hi)
                 /\ (lo = script.min_date /\ hi = script.max_date) =>
                      script.filtered_data = M

\* The range narrowed to its last day keeps the row dated exactly hi and
\* drops the other.
C7_Witness ==
  /\ "sidebar.date_range" \in page
  /\ Len(script.item_filtered_data) = 2
  /\ Len(script.filtered_data) = 1
  /\ script.min_date < script.max_date
  /\ script.date_range = <<script.max_date, script.max_date>>

\* C8: the daily aggregate has one row for each distinct DATE of the
\* filtered table and no other row, no date twice; the data-points card is
\* the number of distinct dates and at most the days of the selected range.
C8_DailyAggregateShape ==
  Aggregated =>
    LET T == script.filtered_data
        D == script.daily_data
    IN  /\ { D[i].DATE : i \in 1 .. Len(D) } = { T[j].DATE : j \in 1 .. Len(T) }
        /\ \A i, k \in 1 .. Len(D) : i # k => D[i].DATE # D[k].DATE
        /\ script.data_points = Cardinality({ T[j].DATE : j \in 1 .. Len(T) })
        /\ script.data_points <= script.date_range[2] - script.date_range[1] + 1

\* Two rows of the one day the range holds make one data point.
C8_Witness ==
  /\ Aggregated
  /\ Len(script.filtered_data) = 2
  /\ script.data_points = 1
  /\ script.date_range[1] = script.date_range[2]

\* C9: a rendered chart has two layers, sales and the selected weather
\* metric, both on the DATE x encoding, with the y scales resolved
\* independently.
C9_IndependentAxes ==
  "chart" \in script.reached =>
    LET ch == script.combined_chart
    IN  /\ "altair_chart" \in page
        /\ Len(ch.layer) = 2
        /\ ch.layer[1].y = "DAILY_SALES:Q"
        /\ ch.layer[2].y = script.selected_weather_metric \o ":Q"
        /\ ch.layer[1].x = "DATE:T"
        /\ ch.layer[2].x = ch.layer[1].x
        /\ ch.resolve.scale.y = "independent"

\* A chart over a day whose sales equal its weather value.
C9_Witness ==
  /\ "chart" \in script.reached
  /\ script.selected_weather_label = "max wind (mph)"
  /\ \E i \in 1 .. Len(script.daily_data) :
       LET d == script.daily_data[i]
       IN  d.DAILY_SALES * d[script.selected_weather_metric].den
             = d[script.selected_weather_metric].num

NoNulls ==
  \A r \in Elems(script.sales_weather_data) :
    r.COUNTRY_DESC # None /\ r.CITY_NAME # None /\ r.MENU_ITEM_NAME # None

\* The empty-result notice is due to the date range: the slider was built
\* and does not stand at its full range.
NarrowedOnly ==
  "warning" \in page =>
    /\ "sidebar.date_range" \in page
    /\ script.date_range # <<script.min_date, script.max_date>>

\* C10 as stated: in every run the chosen country, city and menu item are
\* members of their option lists; a non-empty loaded table without nulls is
\* never empty after the three selections, and only the date range can empty it.
C10_SelectionAlwaysMember ==
  Returned =>
    /\ script.selected_country \in Elems(script.countries)
    /\ script.selected_city \in Elems(script.cities)
    /\ script.selected_menu_item \in Elems(script.menu_items)
    /\ (Len(script.sales_weather_data) > 0 /\ NoNulls) =>
         /\ Len(script.item_filtered_data) > 0
         /\ NarrowedOnly

\* The value a selectbox yields for its options: one of them, or None when
\* there is none.
Chosen(value, options) ==
  IF options = <<>> THEN value = None ELSE value \in Elems(options)

\* C10, amended: in every run the chosen country, city and menu item are
\* members of their option lists whenever the list is not empty, and None
\* when it is; a non-empty loaded table without nulls is never empty after
\* the three selections, and only the date range can empty it.
C10_SelectionValid ==
  Returned =>
    /\ Chosen(script.selected_country, script.countries)
    /\ Chosen(script.selected_city, script.cities)
    /\ Chosen(script.selected_menu_item, script.menu_items)
    /\ (Len(script.sales_weather_data) > 0 /\ NoNulls) =>
         /\ script.selected_country \in Elems(script.countries)
         /\ script.selected_city \in Elems(script.cities)
         /\ script.selected_menu_item \in Elems(script.menu_items)
         /\ Len(script.item_filtered_data) > 0
         /\ NarrowedOnly

\* The user moved the country away from the default, in a table without nulls.
C10_Witness ==
  /\ Returned
  /\ NoNulls
  /\ Len(script.countries) = 2
  /\ script.selected_country = "Australia"
  /\ Len(script.item_filtered_data) > 0

====
